---- MODULE Spec2Model ----
(***************************************************************************)
(* The L-system parser of utymap (lsys/LSystemParser.cpp): the Boost.Spirit *)
(* Qi grammars CommentSkipper, RuleGrammar, ProductionGrammar and           *)
(* LSystemGrammar, and the entry point parse(), as a state machine over an  *)
(* input text.  A text is a sequence of one-character strings, a position   *)
(* is a 1-based index into it, and Len(s) + 1 is the end iterator.          *)
(*                                                                         *)
(* The alphabet of the texts is ASCII without exponent letters after a      *)
(* number and without "nan"/"inf", so the exponent and the special values   *)
(* of qi::double_ are never in play.                                        *)
(***************************************************************************)
EXTENDS Integers, Sequences, FiniteSets, TLC

VARIABLES doc, input, first, pc, lsystem, error, parsed, symbols, inserted, baseline

vars == <<doc, input, first, pc, lsystem, error, parsed, symbols, inserted, baseline>>

\* The largest number of places in which a document differs from the canonical one.
MaxDefects == 2

\* The same, for the documents a comment line is inserted into.
MaxCommentDefects == 1

NL == "\n"

Digit == {"0", "1", "2", "3", "4", "5", "6", "7", "8", "9"}

DigitChars == <<"0", "1", "2", "3", "4", "5", "6", "7", "8", "9">>

DigitVal(c) == (CHOOSE k \in 1..10 : DigitChars[k] = c) - 1

\* F applied to the value of v: v is computed once, however often F uses it.
Bind(v, F(_)) == CHOOSE y \in {F(x) : x \in {v}} : TRUE

RECURSIVE Flatten(_)
Flatten(pieces) ==
    IF pieces = <<>> THEN <<>> ELSE Head(pieces) \o Flatten(Tail(pieces))

(***************************************************************************)
(* The texts.  A document is the canonical one changed in at most          *)
(* MaxDefects places; each place offers a few alternatives, every one a     *)
(* list of pieces (keywords, numbers, symbols, blanks, comments).           *)
(***************************************************************************)
KwGenerations == <<"g", "e", "n", "e", "r", "a", "t", "i", "o", "n", "s", ":">>
KwAngle == <<"a", "n", "g", "l", "e", ":">>
KwScale == <<"s", "c", "a", "l", "e", ":">>
KwAxiom == <<"a", "x", "i", "o", "m", ":">>
Arrow == <<"-", ">">>
Sp == <<" ">>
Nl == <<NL>>
Comment == <<"#", "c", NL>>

GenAlts ==
    << <<KwGenerations, <<"4">> >>, <<>>, <<KwGenerations>>,
       <<KwGenerations, <<"-", "3">> >> >>
HSepAlts == << <<Sp>>, <<Nl>>, <<Sp, Comment>>, <<>> >>
AngleAlts ==
    << <<KwAngle, <<"2", "5", ".", "7">> >>, <<>>, <<KwAngle>>,
       <<KwAngle, Sp, <<".", "5">> >> >>
ScaleAlts ==
    << <<KwScale, <<"1">> >>, <<>>, <<KwScale>>, <<KwScale, <<"0", ".", "6">> >> >>
OrderAlts == << <<>>, <<>> >>
AxiomAlts ==
    << <<KwAxiom, <<"F">> >>, <<>>, <<KwAxiom>>, <<KwAxiom, <<"F">>, Sp, <<"X">> >>,
       <<KwAxiom, Sp, <<"f">> >> >>
AxiomEndAlts ==
    << <<Nl>>, <<>>, <<Sp, Comment>>, <<Sp, Comment, <<"X">>, Nl>> >>
PredAlts == << << <<"F">> >>, << <<"X">> >> >>
ProbAlts ==
    << <<>>,
       <<Sp, <<"(">>, <<"0", ".", "5">>, <<")">> >>,
       << <<"(">>, <<"2">>, <<")">> >>,
       << <<"(">>, <<"0">>, <<")">> >>,
       << <<"(">>, <<"-", "1">>, <<")">> >>,
       << <<"(">>, <<"0", ".", "5">> >>,
       <<Sp, <<"(">>, Sp, <<"1">>, Sp, <<")">> >> >>
ArrowAlts == << <<Sp, Arrow>>, <<>> >>
SuccAlts ==
    << <<Sp, <<"F">>, <<"[">>, <<"+">>, <<"F">>, <<"]">>, <<"F">>,
         <<"[">>, <<"-">>, <<"F">>, <<"]">>, <<"F">> >>,
       <<>>,
       <<Sp, <<"f">>, Sp, <<"X">> >>,
       <<Sp, <<"#">>, <<"F">> >> >>
LSepAlts == << <<Nl>>, <<Sp, Comment>> >>
LineAlts ==
    << <<>>,
       << <<"F">>, Sp, <<"(">>, <<"0", ".", "5">>, <<")">>, Sp, Arrow, Sp,
          <<"F">>, <<"[">>, <<"-">>, <<"F">>, <<"]">>, <<"F">> >>,
       << <<"X">>, Sp, Arrow, Sp, <<"F">> >>,
       << <<"F">>, Sp, Arrow, Sp, <<"X">> >>,
       << <<"X">>, <<"(">>, <<"0", ".", "2", "5">>, <<")">>, Arrow, <<"f">> >> >>
TrailerAlts ==
    << <<>>, <<Nl>>, <<Nl, Nl, <<"X">> >>, <<Sp, Comment>>, <<Nl, <<"X">> >> >>

Alts ==
    [gen |-> GenAlts, hsep |-> HSepAlts, angle |-> AngleAlts, scale |-> ScaleAlts,
     order |-> OrderAlts, axiom |-> AxiomAlts, axiomEnd |-> AxiomEndAlts,
     pred |-> PredAlts, prob |-> ProbAlts, arrow |-> ArrowAlts, succ |-> SuccAlts,
     lsep |-> LSepAlts, line2 |-> LineAlts, line3 |-> LineAlts,
     trailer |-> TrailerAlts]

Slots == DOMAIN Alts

Canonical == [k \in Slots |-> 1]

Defects(d) == Cardinality({k \in Slots : d[k] # 1})

Deviate(S) ==
    S \cup UNION {{[d EXCEPT ![k] = v] : v \in 1..Len(Alts[k])} : d \in S, k \in Slots}

RECURSIVE Docs(_)
Docs(n) == IF n = 0 THEN {Canonical} ELSE Deviate(Docs(n - 1))

Pieces(d) ==
    LET sep == HSepAlts[d.hsep]
        a == AngleAlts[d.angle]
        s == ScaleAlts[d.scale]
        more(l) == IF l = <<>> THEN <<>> ELSE LSepAlts[d.lsep] \o l
    IN  GenAlts[d.gen] \o sep
        \o (IF d.order = 1 THEN a \o sep \o s ELSE s \o sep \o a) \o sep
        \o AxiomAlts[d.axiom] \o AxiomEndAlts[d.axiomEnd]
        \o PredAlts[d.pred] \o ProbAlts[d.prob] \o ArrowAlts[d.arrow]
        \o SuccAlts[d.succ]
        \o more(LineAlts[d.line2]) \o more(LineAlts[d.line3])
        \o TrailerAlts[d.trailer]

Render(d) == Flatten(Pieces(d))

(***************************************************************************)
(* CommentSkipper: one blank, or a comment from '#' to its newline.         *)
(***************************************************************************)
RECURSIVE CommentEnd(_, _)
\* *(qi::char_ - '\n') >> '\n' from position i: the position after the newline,
\* or 0 when the text ends before one.
CommentEnd(s, i) ==
    IF i > Len(s) THEN 0
    ELSE IF s[i] = NL THEN i + 1
    ELSE CommentEnd(s, i + 1)

\* One match of the skipper's start rule at i: the position after it, or 0.
CommentSkipperStart(s, i) ==
    IF i > Len(s) THEN 0
    ELSE IF s[i] = " " THEN i + 1
    ELSE IF s[i] = "#" THEN CommentEnd(s, i + 1)
    ELSE 0

RECURSIVE SkipOver(_, _)
\* qi::skip_over: the skipper applied for as long as it matches.
SkipOver(s, i) ==
    Bind(CommentSkipperStart(s, i), LAMBDA j : IF j = 0 THEN i ELSE SkipOver(s, j))

(***************************************************************************)
(* The primitive parsers.  Each skips first, and on failure leaves the      *)
(* iterator after the skipped text.                                         *)
(***************************************************************************)
LitString(s, i, str) ==
    Bind(SkipOver(s, i), LAMBDA j :
        LET e == j + Len(str) - 1
        IN  IF e <= Len(s) /\ SubSeq(s, j, e) = str
            THEN [ok |-> TRUE, first |-> e + 1]
            ELSE [ok |-> FALSE, first |-> j])

LitChar(s, i, c) == LitString(s, i, <<c>>)

RECURSIVE DigitsEnd(_, _)
DigitsEnd(s, i) ==
    IF i <= Len(s) /\ s[i] \in Digit THEN DigitsEnd(s, i + 1) ELSE i

RECURSIVE DigitsValue(_, _, _, _)
\* The decimal value of s[i..e-1], continuing from acc.
DigitsValue(s, i, e, acc) ==
    IF i >= e THEN acc ELSE DigitsValue(s, i + 1, e, 10 * acc + DigitVal(s[i]))

SignEnd(s, j) == IF j <= Len(s) /\ s[j] \in {"+", "-"} THEN j + 1 ELSE j

Negative(s, j) == j <= Len(s) /\ s[j] = "-"

\* qi::int_: an optional sign and at least one digit.
IntParser(s, i) ==
    Bind(SkipOver(s, i), LAMBDA j :
    Bind(DigitsEnd(s, SignEnd(s, j)), LAMBDA e :
        LET n == DigitsValue(s, SignEnd(s, j), e, 0)
        IN  IF e > SignEnd(s, j)
            THEN [ok |-> TRUE, first |-> e,
                  attr |-> IF Negative(s, j) THEN 0 - n ELSE n]
            ELSE [ok |-> FALSE, first |-> j, attr |-> 0]))

RECURSIVE Real(_, _)
\* The double m / 10^e, in lowest decimal form.
Real(m, e) ==
    IF e > 0 /\ m % 10 = 0 THEN Real(m \div 10, e - 1) ELSE [m |-> m, e |-> e]

\* qi::double_: an optional sign, digits, and an optional '.' with digits; at
\* least one digit, before or after the dot.
RealParser(s, i) ==
    Bind(SkipOver(s, i), LAMBDA j :
    Bind(DigitsEnd(s, SignEnd(s, j)), LAMBDA ie :
    Bind(ie <= Len(s) /\ s[ie] = ".", LAMBDA dot :
    Bind(IF dot THEN DigitsEnd(s, ie + 1) ELSE ie, LAMBDA fe :
        LET k == SignEnd(s, j)
            digits == IF dot THEN fe - (ie + 1) ELSE 0
            n == DigitsValue(s, ie + 1, fe, DigitsValue(s, k, ie, 0))
        IN  IF ie > k \/ digits > 0
            THEN [ok |-> TRUE, first |-> fe,
                  attr |-> Real(IF Negative(s, j) THEN 0 - n ELSE n, digits)]
            ELSE [ok |-> FALSE, first |-> j, attr |-> Real(0, 0)]))))

(***************************************************************************)
(* RuleGrammar: one symbol.                                                 *)
(***************************************************************************)
forward == [kind |-> "MoveForward", word |-> ""]

jump == [kind |-> "JumpForward", word |-> ""]

WordRuleFactory(c) == [kind |-> "Word", word |-> c]

\* The symbol table: the rule registered under the text at j, if any.
RuleTable(s, j) ==
    IF j <= Len(s) /\ s[j] = "F" THEN <<forward>>
    ELSE IF j <= Len(s) /\ s[j] = "f" THEN <<jump>>
    ELSE <<>>

\* lexeme[ascii::char_ - (' ' | '\n')] at j (already skipped to).
WordChar(s, j) == j <= Len(s) /\ s[j] \notin {" ", NL}

\* RuleStart without the symbol table: every character is a word.
RuleStartWordOnly(s, i) ==
    Bind(SkipOver(s, i), LAMBDA j :
        IF WordChar(s, j)
        THEN [ok |-> TRUE, first |-> j + 1, attr |-> WordRuleFactory(s[j]), at |-> j]
        ELSE [ok |-> FALSE, first |-> j, attr |-> forward, at |-> 0])

\* start = ruleTable | word.  "at" is the position of the character taken.
RuleStart(s, i) ==
    Bind(SkipOver(s, i), LAMBDA j :
        IF RuleTable(s, j) # <<>>
        THEN [ok |-> TRUE, first |-> j + 1, attr |-> RuleTable(s, j)[1], at |-> j]
        ELSE IF WordChar(s, j)
        THEN [ok |-> TRUE, first |-> j + 1, attr |-> WordRuleFactory(s[j]), at |-> j]
        ELSE [ok |-> FALSE, first |-> j, attr |-> forward, at |-> 0])

RECURSIVE KleeneRule(_, _, _, _)
KleeneRule(s, i, rules, ats) ==
    Bind(RuleStart(s, i), LAMBDA r :
        IF r.ok
        THEN KleeneRule(s, r.first, Append(rules, r.attr), Append(ats, r.at))
        ELSE [ok |-> TRUE, first |-> r.first, attr |-> rules, at |-> ats])

\* +rule: as many symbols as follow, at least one.  A failed last attempt
\* leaves the iterator after what it skipped; no match at all leaves it at i.
PlusRule(s, i) ==
    IF RuleStart(s, i).ok
    THEN KleeneRule(s, i, <<>>, <<>>)
    ELSE [ok |-> FALSE, first |-> i, attr |-> <<>>, at |-> <<>>]

(***************************************************************************)
(* ProductionGrammar.  A result's status is "ok", "nomatch" (the parser     *)
(* returned false) or "throw" (an expectation_failure for "what", raised    *)
(* with the iterator at "first").                                           *)
(***************************************************************************)
One == Real(1, 0)

\* Probability with qi::attr(0) for the absent group.
ProbabilityDefaultZero(s, i) ==
    Bind(LitChar(s, i, "("), LAMBDA open :
        IF ~open.ok
        THEN [status |-> "ok", first |-> i, attr |-> Real(0, 0), what |-> ""]
        ELSE Bind(RealParser(s, open.first), LAMBDA d :
        IF ~d.ok
        THEN [status |-> "throw", first |-> d.first, attr |-> One, what |-> "real"]
        ELSE Bind(LitChar(s, d.first, ")"), LAMBDA close :
        IF ~close.ok
        THEN [status |-> "throw", first |-> close.first, attr |-> One, what |-> ")"]
        ELSE [status |-> "ok", first |-> close.first, attr |-> d.attr, what |-> ""])))

\* probability = ('(' > qi::double_ > ')') | qi::attr(1)
Probability(s, i) ==
    Bind(LitChar(s, i, "("), LAMBDA open :
        IF ~open.ok THEN [status |-> "ok", first |-> i, attr |-> One, what |-> ""]
        ELSE Bind(RealParser(s, open.first), LAMBDA d :
        IF ~d.ok
        THEN [status |-> "throw", first |-> d.first, attr |-> One, what |-> "real"]
        ELSE Bind(LitChar(s, d.first, ")"), LAMBDA close :
        IF ~close.ok
        THEN [status |-> "throw", first |-> close.first, attr |-> One, what |-> ")"]
        ELSE [status |-> "ok", first |-> close.first, attr |-> d.attr, what |-> ""])))

NoProduction == [predcessor |-> forward, probability |-> One, successor |-> <<>>]

\* production = rule > probability > "->" > +rule, with the Production it fills
\* and the positions of its symbols and of its arrow.
Production(s, i) ==
    LET none == [status |-> "nomatch", first |-> i, attr |-> NoProduction,
                 what |-> "", at |-> <<>>, arrow |-> 0]
    IN  Bind(RuleStart(s, i), LAMBDA r :
        IF ~r.ok THEN none
        ELSE Bind(Probability(s, r.first), LAMBDA p :
        IF p.status = "throw"
        THEN [none EXCEPT !.status = "throw", !.first = p.first, !.what = p.what]
        ELSE Bind(LitString(s, p.first, Arrow), LAMBDA a :
        IF ~a.ok
        THEN [none EXCEPT !.status = "throw", !.first = a.first, !.what = "->"]
        ELSE Bind(PlusRule(s, a.first), LAMBDA q :
        IF ~q.ok
        THEN [none EXCEPT !.status = "throw", !.first = q.first, !.what = "+rule"]
        ELSE [status |-> "ok", first |-> q.first,
              attr |-> [predcessor |-> r.attr, probability |-> p.attr,
                        successor |-> q.attr],
              what |-> "", at |-> <<r.at>> \o q.at, arrow |-> a.first - 2]))))

\* ProductionFactory: the predecessor paired with a one-element list of
\* (probability, successor).
ProductionFactory(p) ==
    <<p.predcessor, <<[probability |-> p.probability, successor |-> p.successor]>> >>

\* RuleComparator's equivalence of two symbols: the same variant and, for
\* words, the same text.
RuleEquivalent(a, b) == a.kind = b.kind /\ a.word = b.word

\* The list parser's push of one ProductionPair into the ProductionMap:
\* std::map::insert, which keeps the entry of a key already present.
PushBack(map, pair) ==
    IF \E k \in DOMAIN map : RuleEquivalent(k, pair[1])
    THEN map
    ELSE [k \in DOMAIN map \cup {pair[1]} |->
            IF k \in DOMAIN map THEN map[k] ELSE pair[2]]

(***************************************************************************)
(* LSystemGrammar and parse(), one step per mandatory element.  A parser    *)
(* state holds the iterator, the place in the grammar, the LSystem being    *)
(* filled, and the grammar's error stream.                                  *)
(***************************************************************************)
NoLSystem ==
    [generations |-> 0, angle |-> Real(0, 0), scale |-> Real(0, 0),
     axiom |-> <<>>, productions |-> [k \in {} |-> <<>>]]

Start ==
    [first |-> 1, pc |-> "generations", lsystem |-> NoLSystem, error |-> <<>>,
     parsed |-> <<>>, symbols |-> <<>>]

\* The start rule returns false with no expectation failed: phrase_parse fails
\* and parse() throws with an empty error stream.
Fail(st) == [st EXCEPT !.pc = "failed", !.first = 1]

\* qi::on_error<qi::fail>: the handler writes what was expected and the text
\* from the failure to the end; the rule fails and parse() throws.
OnError(s, st, what, at) ==
    [st EXCEPT !.pc = "failed", !.first = 1,
               !.error = <<[expecting |-> what, here |-> SubSeq(s, at, Len(s))]>>]

Traced(rules, ats) == [k \in 1..Len(rules) |-> [at |-> ats[k], rule |-> rules[k]]]

\* qi::lit("generations:") > qi::int_
GenerationsStep(s, st) ==
    Bind(LitString(s, st.first, KwGenerations), LAMBDA k :
        IF ~k.ok THEN Fail(st)
        ELSE Bind(IntParser(s, k.first), LAMBDA n :
        IF ~n.ok THEN OnError(s, st, "integer", n.first)
        ELSE [st EXCEPT !.first = n.first, !.pc = "angle",
                        !.lsystem.generations = n.attr]))

\* AngleStep with the whole field optional: -(qi::lit("angle:") > qi::double_).
AngleStepOptional(s, st) ==
    Bind(LitString(s, st.first, KwAngle), LAMBDA k :
        IF ~k.ok THEN [st EXCEPT !.pc = "scale"]
        ELSE Bind(RealParser(s, k.first), LAMBDA d :
        IF ~d.ok THEN OnError(s, st, "real", d.first)
        ELSE [st EXCEPT !.first = d.first, !.pc = "scale", !.lsystem.angle = d.attr]))

\* qi::lit("angle:") > qi::double_
AngleStep(s, st) ==
    Bind(LitString(s, st.first, KwAngle), LAMBDA k :
        IF ~k.ok THEN OnError(s, st, "angle:", k.first)
        ELSE Bind(RealParser(s, k.first), LAMBDA d :
        IF ~d.ok THEN OnError(s, st, "real", d.first)
        ELSE [st EXCEPT !.first = d.first, !.pc = "scale", !.lsystem.angle = d.attr]))

\* qi::lit("scale:") > qi::double_
ScaleStep(s, st) ==
    Bind(LitString(s, st.first, KwScale), LAMBDA k :
        IF ~k.ok THEN OnError(s, st, "scale:", k.first)
        ELSE Bind(RealParser(s, k.first), LAMBDA d :
        IF ~d.ok THEN OnError(s, st, "real", d.first)
        ELSE [st EXCEPT !.first = d.first, !.pc = "axiom", !.lsystem.scale = d.attr]))

\* qi::lit("axiom:") > +rule > '\n'
AxiomStep(s, st) ==
    Bind(LitString(s, st.first, KwAxiom), LAMBDA k :
        IF ~k.ok THEN OnError(s, st, "axiom:", k.first)
        ELSE Bind(PlusRule(s, k.first), LAMBDA q :
        IF ~q.ok THEN OnError(s, st, "+production", q.first)
        ELSE Bind(LitChar(s, q.first, NL), LAMBDA n :
        IF ~n.ok THEN OnError(s, st, NL, n.first)
        ELSE [st EXCEPT !.first = n.first, !.pc = "production",
                        !.lsystem.axiom = q.attr,
                        !.symbols = @ \o Traced(q.attr, q.at)])))

\* What one matched production line adds: its pair pushed into the map.
Matched(st, r) ==
    [st EXCEPT !.first = r.first, !.pc = "separator",
               !.lsystem.productions = PushBack(@, ProductionFactory(r.attr)),
               !.parsed = Append(@, [at |-> r.at[1], arrow |-> r.arrow,
                                     last |-> r.at[Len(r.at)],
                                     production |-> r.attr]),
               !.symbols = @ \o Traced(<<r.attr.predcessor>> \o r.attr.successor, r.at)]

\* The first pair of pair % '\n', the last element expected by the start rule.
ProductionStep(s, st) ==
    Bind(Production(s, st.first), LAMBDA r :
        IF r.status = "nomatch" THEN OnError(s, st, "production", r.first)
        ELSE IF r.status = "throw" THEN OnError(s, st, r.what, r.first)
        ELSE Matched(st, r))

\* One more round of pair % '\n': the separator and a pair, or the end of the
\* list with the iterator back before the separator.
SeparatorStep(s, st) ==
    Bind(LitChar(s, st.first, NL), LAMBDA n :
        IF ~n.ok THEN [st EXCEPT !.pc = "postskip"]
        ELSE Bind(Production(s, n.first), LAMBDA r :
        IF r.status = "nomatch" THEN [st EXCEPT !.pc = "postskip"]
        ELSE IF r.status = "throw" THEN OnError(s, st, r.what, r.first)
        ELSE Matched(st, r)))

\* phrase_parse's post-skip; it returns true and parse() returns the LSystem.
PostSkipStep(s, st) == [st EXCEPT !.first = SkipOver(s, st.first), !.pc = "done"]

Step(s, st) ==
    CASE st.pc = "generations" -> GenerationsStep(s, st)
      [] st.pc = "angle" -> AngleStep(s, st)
      [] st.pc = "scale" -> ScaleStep(s, st)
      [] st.pc = "axiom" -> AxiomStep(s, st)
      [] st.pc = "production" -> ProductionStep(s, st)
      [] st.pc = "separator" -> SeparatorStep(s, st)
      [] st.pc = "postskip" -> PostSkipStep(s, st)
      [] OTHER -> st

RECURSIVE Run(_, _)
Run(s, st) ==
    IF st.pc \in {"done", "failed"} THEN st
    ELSE Bind(Step(s, st), LAMBDA next : Run(s, next))

\* LSystemParser::parse(str): the LSystem, or the exception.
Outcome(st) ==
    IF st.pc = "done" THEN [ok |-> TRUE, lsystem |-> st.lsystem]
    ELSE [ok |-> FALSE, lsystem |-> NoLSystem]

Parse(s) == Outcome(Run(s, Start))

(***************************************************************************)
(* The state machine.                                                       *)
(***************************************************************************)
State ==
    [first |-> first, pc |-> pc, lsystem |-> lsystem, error |-> error,
     parsed |-> parsed, symbols |-> symbols]

Becomes(st) ==
    \E n \in {st} :
        /\ first' = n.first
        /\ pc' = n.pc
        /\ lsystem' = n.lsystem
        /\ error' = n.error
        /\ parsed' = n.parsed
        /\ symbols' = n.symbols
        /\ UNCHANGED <<doc, input, inserted, baseline>>

NoBaseline == [ok |-> FALSE, lsystem |-> NoLSystem]

Begin(d, step) ==
    /\ doc = d
    /\ input = Render(d)
    /\ first = Start.first
    /\ pc = step
    /\ lsystem = Start.lsystem
    /\ error = Start.error
    /\ parsed = Start.parsed
    /\ symbols = Start.symbols
    /\ inserted = 0
    /\ baseline = NoBaseline

Init == \E d \in Docs(MaxDefects) : Begin(d, "generations")

ParseGenerations == pc = "generations" /\ Becomes(GenerationsStep(input, State))

ParseAngle == pc = "angle" /\ Becomes(AngleStep(input, State))

ParseScale == pc = "scale" /\ Becomes(ScaleStep(input, State))

ParseAxiom == pc = "axiom" /\ Becomes(AxiomStep(input, State))

ParseProduction == pc = "production" /\ Becomes(ProductionStep(input, State))

ParseSeparator == pc = "separator" /\ Becomes(SeparatorStep(input, State))

PostSkip == pc = "postskip" /\ Becomes(PostSkipStep(input, State))

Next ==
    \/ ParseGenerations
    \/ ParseAngle
    \/ ParseScale
    \/ ParseAxiom
    \/ ParseProduction
    \/ ParseSeparator
    \/ PostSkip

Spec == Init /\ [][Next]_vars

(***************************************************************************)
(* The same parse of a text with one comment line inserted between two of   *)
(* its tokens, next to the outcome of the text without it.                  *)
(***************************************************************************)
RECURSIVE Offsets(_, _)
\* The lengths of the proper prefixes of a list of pieces, from offset n on.
Offsets(pieces, n) ==
    IF Len(pieces) <= 1 THEN {}
    ELSE {n + Len(Head(pieces))} \cup Offsets(Tail(pieces), n + Len(Head(pieces)))

RECURSIVE CommentSpans(_, _)
\* The comments of a text from position i on, each as <<'#', newline>> positions.
CommentSpans(s, i) ==
    IF i > Len(s) THEN {}
    ELSE IF s[i] = "#" /\ CommentEnd(s, i + 1) # 0
    THEN {<<i, CommentEnd(s, i + 1) - 1>>} \cup CommentSpans(s, CommentEnd(s, i + 1))
    ELSE CommentSpans(s, i + 1)

\* The offsets at which one token ends and the next piece begins, outside
\* every comment.
BetweenTokens(d) ==
    {p \in Offsets(Pieces(d), 0) :
        \A c \in CommentSpans(Render(d), 1) : ~(c[1] <= p /\ p < c[2])}

InsertAt(s, p) == SubSeq(s, 1, p) \o Comment \o SubSeq(s, p + 1, Len(s))

InitComment == \E d \in Docs(MaxCommentDefects) : Begin(d, "insert")

InsertComment ==
    /\ pc = "insert"
    /\ \E p \in BetweenTokens(doc) :
        /\ input' = InsertAt(input, p)
        /\ inserted' = p + 1
    /\ baseline' = Parse(input)
    /\ pc' = "generations"
    /\ UNCHANGED <<doc, first, lsystem, error, parsed, symbols>>

NextComment ==
    \/ InsertComment
    \/ ParseGenerations
    \/ ParseAngle
    \/ ParseScale
    \/ ParseAxiom
    \/ ParseProduction
    \/ ParseSeparator
    \/ PostSkip

SpecComment == InitComment /\ [][NextComment]_vars

Terminal == pc \in {"done", "failed"}

(***************************************************************************)
(* What the claims speak of.                                                *)
(***************************************************************************)
RECURSIVE Alternatives(_, _)
\* The (probability, successor) of the parsed lines whose predecessor is k,
\* in the order of the lines.
Alternatives(lines, k) ==
    IF lines = <<>> THEN <<>>
    ELSE LET p == Head(lines).production
         IN  (IF RuleEquivalent(p.predcessor, k)
              THEN <<[probability |-> p.probability, successor |-> p.successor]>>
              ELSE <<>>) \o Alternatives(Tail(lines), k)

RECURSIVE After(_, _, _)
\* The position after the first occurrence of pat in s at or after i; 0 when
\* there is none, or when i is 0.
After(s, pat, i) ==
    IF i = 0 \/ i + Len(pat) - 1 > Len(s) THEN 0
    ELSE IF SubSeq(s, i, i + Len(pat) - 1) = pat THEN i + Len(pat)
    ELSE After(s, pat, i + 1)

\* Some character of s in positions a..b-1 belongs to (or, with within FALSE,
\* is outside) the set cs.
Has(s, a, b, cs, within) ==
    a # 0 /\ b # 0 /\ \E k \in a..(b - 1) : (s[k] \in cs) = within

\* The text holds, in this order: "generations:" and a digit, "angle:" and a
\* digit, "scale:" and a digit, "axiom:" and a symbol character, a newline, an
\* arrow, and a symbol character.
InOrder(s) ==
    LET g == After(s, KwGenerations, 1)
        a == After(s, KwAngle, g)
        c == After(s, KwScale, a)
        x == After(s, KwAxiom, c)
        n == After(s, Nl, x)
        w == After(s, Arrow, n)
    IN  /\ w # 0
        /\ Has(s, g, a, Digit, TRUE)
        /\ Has(s, a, c, Digit, TRUE)
        /\ Has(s, c, x, Digit, TRUE)
        /\ Has(s, x, n - 1, {" ", NL}, FALSE)
        /\ Has(s, w, Len(s) + 1, {" ", NL}, FALSE)

RECURSIVE OnlyBlank(_, _)
\* From position i on the text holds only blanks, newlines and comments.
OnlyBlank(s, i) ==
    IF i > Len(s) THEN TRUE
    ELSE IF s[i] \in {" ", NL} THEN OnlyBlank(s, i + 1)
    ELSE IF s[i] = "#"
    THEN CommentEnd(s, i + 1) = 0 \/ OnlyBlank(s, CommentEnd(s, i + 1))
    ELSE FALSE

NoNewline(s, a, b) == \A k \in a..b : s[k] # NL

InUnitRange(r) ==
    /\ r.m > 0
    /\ \/ r.e = 0 /\ r.m = 1
       \/ r.e = 1 /\ r.m < 10
       \/ r.e = 2 /\ r.m < 100

\* The probabilities the texts write, with their values.
Written ==
    << <<"0", ".", "5">>, <<"2">>, <<"0">>, <<"-", "1">>, <<"1">>,
       <<"0", ".", "2", "5">> >>

WrittenValue ==
    << [m |-> 5, e |-> 1], [m |-> 2, e |-> 0], [m |-> 0, e |-> 0], [m |-> -1, e |-> 0],
       [m |-> 1, e |-> 0], [m |-> 25, e |-> 2] >>

\* A line's text between its predecessor and its arrow, blanks dropped.
Group(l) == SelectSeq(SubSeq(input, l.at + 1, l.arrow - 1), LAMBDA c : c # " ")

W(c) == [kind |-> "Word", word |-> c]

ScenarioA == [Canonical EXCEPT !.hsep = 2]

ScenarioAResult ==
    [generations |-> 4, angle |-> [m |-> 257, e |-> 1], scale |-> [m |-> 1, e |-> 0],
     axiom |-> <<forward>>,
     productions |->
        [k \in {forward} |->
            <<[probability |-> [m |-> 1, e |-> 0],
               successor |-> <<forward, W("["), W("+"), forward, W("]"), forward,
                               W("["), W("-"), forward, W("]"), forward>>]>>]]

\* A document in the line-oriented format: every element present and well
\* formed, a newline after each header line, nothing after the last line.
LineOriented(d) ==
    /\ d.hsep = 2
    /\ d.prob \in {1, 2, 3, 4, 5, 7}
    /\ d.succ \in {1, 3}
    /\ d.axiom \in {1, 4}
    /\ \A k \in Slots \ {"hsep", "prob", "succ", "axiom", "pred", "line2", "line3"} :
          d[k] = 1

\* C1: in a returned LSystem the set stored under a predecessor holds one
\* Production per production line naming it, in source order.
C1_Accumulates ==
    pc = "done" =>
        /\ \A l \in 1..Len(parsed) :
              parsed[l].production.predcessor \in DOMAIN lsystem.productions
        /\ \A k \in DOMAIN lsystem.productions :
              lsystem.productions[k] = Alternatives(parsed, k)

\* C2: a document in the line-oriented format parses, and Scenario A yields
\* generations 4, angle 25.7, scale 1.0, axiom [MoveForward] and its one
\* production.
C2_LineOrientedParses ==
    Terminal /\ LineOriented(doc) =>
        /\ pc = "done"
        /\ doc = ScenarioA => lsystem = ScenarioAResult

\* C3: an LSystem is returned only when nothing but blanks, newlines and
\* comments is left unconsumed.
C3_WholeInputConsumed == pc = "done" => OnlyBlank(input, first)

\* C4: every failed parse carries the name of what was expected and the
\* unconsumed text from the failure point.
C4_FailureCarriesContext ==
    pc = "failed" =>
        /\ error # <<>>
        /\ error[1].expecting # ""
        /\ \E k \in 1..(Len(input) + 1) : error[1].here = SubSeq(input, k, Len(input))

\* C5: a comment line inserted between two tokens leaves the outcome as it
\* is without the line.
C5_CommentTransparent == Terminal /\ inserted > 0 => Outcome(State) = baseline

\* C6: an LSystem is returned only for a text that holds every mandatory
\* element, in order, and no returned LSystem has an empty axiom, no
\* production or an empty successor.
C6_MandatoryInOrder ==
    pc = "done" =>
        /\ InOrder(input)
        /\ lsystem.axiom # <<>>
        /\ DOMAIN lsystem.productions # {}
        /\ \A k \in DOMAIN lsystem.productions :
              \A n \in 1..Len(lsystem.productions[k]) :
                  lsystem.productions[k][n].successor # <<>>

C6_Witness == pc = "failed" /\ ~InOrder(input) /\ After(input, KwAngle, 1) = 0

\* C7: every Production of a returned LSystem has a probability in (0,1].
C7_ProbabilityInRange ==
    pc = "done" =>
        \A k \in DOMAIN lsystem.productions :
            \A n \in 1..Len(lsystem.productions[k]) :
                InUnitRange(lsystem.productions[k][n].probability)

\* C8: a production line without a probability group parses with probability
\* exactly 1.0 and a line with a group (p) with probability p, line by line;
\* and every stored Production is the one of a parsed line.
C8_ProbabilityPerLine ==
    /\ \A l \in 1..Len(parsed) :
          LET g == Group(parsed[l])
              p == parsed[l].production.probability
          IN  IF g = <<>> THEN p = [m |-> 1, e |-> 0]
              ELSE /\ Head(g) = "(" /\ g[Len(g)] = ")"
                   /\ \E n \in 1..Len(Written) :
                         /\ SubSeq(g, 2, Len(g) - 1) = Written[n]
                         /\ p = WrittenValue[n]
    /\ \A k \in DOMAIN lsystem.productions :
          \A n \in 1..Len(lsystem.productions[k]) :
              \E l \in 1..Len(parsed) :
                  /\ RuleEquivalent(parsed[l].production.predcessor, k)
                  /\ parsed[l].production.probability
                        = lsystem.productions[k][n].probability
                  /\ parsed[l].production.successor
                        = lsystem.productions[k][n].successor

C8_Witness ==
    /\ pc = "done"
    /\ Len(parsed) = 2
    /\ Group(parsed[1]) = <<>>
    /\ Group(parsed[2]) # <<>>
    /\ Cardinality(DOMAIN lsystem.productions) = 2

\* C9: wherever a symbol is parsed, 'F' is MoveForward, 'f' is JumpForward and
\* any other character c is Word(c); no Word carries a blank or a newline.
C9_AliasResolution ==
    /\ \A n \in 1..Len(symbols) :
          LET c == input[symbols[n].at]
          IN  /\ c \notin {" ", NL}
              /\ symbols[n].rule =
                    (IF c = "F" THEN [kind |-> "MoveForward", word |-> ""]
                     ELSE IF c = "f" THEN [kind |-> "JumpForward", word |-> ""]
                     ELSE [kind |-> "Word", word |-> c])
    /\ {symbols[n].rule : n \in 1..Len(symbols)} =
          {lsystem.axiom[n] : n \in 1..Len(lsystem.axiom)}
          \cup {parsed[l].production.predcessor : l \in 1..Len(parsed)}
          \cup UNION {{parsed[l].production.successor[n] :
                          n \in 1..Len(parsed[l].production.successor)} :
                      l \in 1..Len(parsed)}

C9_Witness ==
    /\ pc = "done"
    /\ \E a, b, c \in 1..Len(symbols) :
          /\ symbols[a].rule.kind = "MoveForward"
          /\ symbols[b].rule.kind = "JumpForward"
          /\ symbols[c].rule.kind = "Word"

\* C10: in a returned LSystem the symbols of the axiom, and of each production
\* line, all stand on one line of the text: no newline between them was
\* consumed by the skipper.
C10_LinesStaySeparate ==
    pc = "done" =>
        /\ NoNewline(input, symbols[1].at, symbols[Len(lsystem.axiom)].at)
        /\ \A l \in 1..Len(parsed) : NoNewline(input, parsed[l].at, parsed[l].last)

====
